---- MODULE Spec2Model ----
(***************************************************************************)
(* Model of snow.py: the hash / value-noise primitive, the wind field, the *)
(* per-particle physics (SnowParticle.reset / SnowParticle.update) and the *)
(* driver loop of main().                                                  *)
(*                                                                         *)
(* Python floats are modelled as fixed-point numbers: a real r is the      *)
(* integer floor(r * SCALE).  Products are rescaled with floor division,   *)
(* the way the float operation rounds its exact result.  Times (dt, t) are *)
(* in the same unit, so one second is SCALE.  IEEE special values (NaN,    *)
(* infinities) and rounding at the 2^-53 level are outside the model.      *)
(* hash01's integer mixing is modelled exactly, as 32-bit words held in    *)
(* two 16-bit halves <<hi, lo>>.                                           *)
(***************************************************************************)
EXTENDS Integers, Sequences, FiniteSets, TLC

\* ------------------------------------------------------------------------
\* settings (snow.py lines 8-10)
WIDTH == 900
HEIGHT == 600

\* fixed-point unit of the float model: 1.0 is SCALE
SCALE == 2^10

\* a * b of two fixed-point numbers
Mul(a, b) == (a * b) \div SCALE

Max(a, b) == IF a >= b THEN a ELSE b

\* The element of a one-element set.  Only({F(v) : v \in {e}}) is F(e) with e
\* evaluated once and named v, as an assignment to a local variable does.
Only(S) == CHOOSE v \in S : TRUE

\* ------------------------------------------------------------------------
\* 32-bit unsigned words as <<hi, lo>>, both halves in 0..65535
W16 == 65536

\* Python's (i & 0xFFFFFFFF) of an unbounded integer i (two's complement)
ToU32(i) == <<(i \div W16) % W16, i % W16>>

\* low and high 16 bits of the product of two 16-bit numbers
MulLo16(a, b) == ((a % 256) * b + (((a \div 256) * b) % 256) * 256) % W16

MulHi16(a, b) ==
  LET P1 == (a \div 256) * b
      P0 == (a % 256) * b
  IN  (P1 \div 256) + (((P1 % 256) * 256 + P0) \div W16)

\* (a * b) & 0xFFFFFFFF
Mul32(a, b) ==
  <<(MulHi16(a[2], b[2]) + MulLo16(a[1], b[2]) + MulLo16(a[2], b[1])) % W16,
    MulLo16(a[2], b[2])>>

\* (a + b) & 0xFFFFFFFF
Add32(a, b) ==
  <<(a[1] + b[1] + ((a[2] + b[2]) \div W16)) % W16, (a[2] + b[2]) % W16>>

\* a ^ b of two 4-bit numbers, bit by bit, tabulated once
XorBit(a, b, w) == (((a \div w) + (b \div w)) % 2) * w

XorNibble ==
  [a \in 0 .. 15 |->
    [b \in 0 .. 15 |->
      XorBit(a, b, 1) + XorBit(a, b, 2) + XorBit(a, b, 4) + XorBit(a, b, 8)]]

\* a ^ b of two 16-bit numbers, nibble by nibble
Xor16(a, b) ==
    XorNibble[a % 16][b % 16]
  + XorNibble[(a \div 16) % 16][(b \div 16) % 16] * 16
  + XorNibble[(a \div 256) % 16][(b \div 256) % 16] * 256
  + XorNibble[a \div 4096][b \div 4096] * 4096

\* n ^ (n >> 13)
XorShift13(n) ==
  <<Xor16(n[1], n[1] \div 8192),
    Xor16(n[2], (n[1] * 8 + (n[2] \div 8192)) % W16)>>

\* n ^ (n >> 16)
XorShift16(n) == <<n[1], Xor16(n[2], n[1])>>

\* the 32-bit word n of hash01 before the final division (lines 23-25)
K1 == ToU32(374761393)
K2 == ToU32(668265263)
K3 == ToU32(1274126177)

hashWord(i, seed) ==
  Only({XorShift16(n2) :
          n2 \in {Mul32(m, K3) :
            m \in {XorShift13(n1) :
              n1 \in {Add32(Mul32(ToU32(i), K1), Mul32(ToU32(seed), K2))}}}})

AllOnes == <<W16 - 1, W16 - 1>>

\* n / 0xFFFFFFFF in fixed point: floor(n * SCALE / (2^32 - 1)), which is
\* floor(n / 2^22) for every word but 0xFFFFFFFF, where the quotient is 1.0
Norm32(n) == IF n = AllOnes THEN SCALE ELSE n[1] \div (W16 \div SCALE)

hash01(i, seed) == Norm32(hashWord(i, seed))

smoothstep(x) == Mul(Mul(x, x), 3 * SCALE - 2 * x)

value_noise_1d(t, seed) ==
  Only({LET i0 == tv \div SCALE
            i1 == i0 + 1
            f  == tv - i0 * SCALE
            a  == hash01(i0, sv)
            b  == hash01(i1, sv)
            u  == smoothstep(f)
        IN  Mul(a, SCALE - u) + Mul(b, u) : tv \in {t}, sv \in {seed}})

\* ------------------------------------------------------------------------
\* math.sin in fixed point (Bhaskara's rational approximation on [0, pi],
\* error below 0.003, odd and 2*pi-periodic like the library function)
PI == 3217

SinHalf(x) ==
  LET p == x * (PI - x)
  IN  (16 * p * 32) \div ((5 * PI * PI - 4 * p) \div 32)

Sin(x) ==
  LET r == x % (2 * PI)
  IN  IF r < PI THEN SinHalf(r) ELSE -SinHalf(r - PI)

\* ------------------------------------------------------------------------
\* wind_field(t, y, depth, seed) -> <<ax, ay>>
wind_field(t, y, depth, seed) ==
  LET dir_x == SCALE \div 2 - depth
      height_factor ==
        (4 * SCALE) \div 10 + Mul((6 * SCALE) \div 10, SCALE - (y \div HEIGHT))
      base == Sin((t * 35) \div 100)
      jitter == ((value_noise_1d((t * 9) \div 10, seed) * 2 - SCALE) * 35) \div 100
      wind_strength == Mul((base + jitter) * 200, height_factor)
      ax == Mul(dir_x, wind_strength)
      gust == Max(0, Sin((t * 12) \div 10 + (seed * SCALE) \div 100))
      lift_personal == value_noise_1d((t * 11) \div 10, seed + 999)
      lift == Mul(Mul(gust, lift_personal) * 220,
                  (3 * SCALE) \div 10 + Mul((7 * SCALE) \div 10, height_factor))
  IN  <<ax, -lift>>

\* ------------------------------------------------------------------------
\* random.uniform(a, b) = a + (b - a) * random(), r the value of random()
uniform(a, b, r) == a + Mul(b - a, r)

\* the fields reset derives from the depth it drew (lines 52-67)
AlphaOfRounded(depth) == (70 * SCALE + depth * 185 + SCALE \div 2) \div SCALE
DragOfSwapped(depth) == (6 * SCALE) \div 10 - (depth * 16) \div 10

SizeOf(depth) == SCALE + (depth * 25) \div 10
AlphaOf(depth) == (70 * SCALE + depth * 185) \div SCALE
GravityOf(depth) == 30 * SCALE + depth * 80
InitialVy(depth) == 20 * SCALE + depth * 150
SwayAmpOf(depth) == 40 * SCALE + depth * 70
DragOf(depth) == (16 * SCALE) \div 10 - (depth * 6) \div 10

\* SnowParticle.reset(x, y): r1 and r2 are the two values of random.random()
\* it draws (depth, sway_speed), sd the value of random.randint(0, 10_000)
reset(x, y, r1, r2, sd) ==
  [x |-> x, y |-> y,
   depth |-> r1,
   size |-> SizeOf(r1),
   alpha |-> AlphaOf(r1),
   gravity |-> GravityOf(r1),
   vx |-> 0,
   vy |-> InitialVy(r1),
   sway_amp |-> SwayAmpOf(r1),
   sway_speed |-> SCALE \div 4 + (r2 * 8) \div 10,
   drag |-> DragOf(r1),
   seed |-> sd]

\* damp = max(0.0, 1.0 - self.drag * dt)
Damp(drag, dt) == Max(0, SCALE - Mul(drag, dt))

\* update, lines 72-96: wind, sway, velocity, drag and position integration
Integrate(q, dt, t) ==
  Only({LET sway == Mul(n * 2 - SCALE, q.sway_amp)
            ax == wind[1] + sway
            ay == q.gravity + wind[2]
            damp == Damp(q.drag, dt)
            vx == Mul(q.vx + Mul(ax, dt), damp)
            vy == Mul(q.vy + Mul(ay, dt), damp)
        IN  [q EXCEPT !.vx = vx, !.vy = vy,
                      !.x = q.x + Mul(vx, dt), !.y = q.y + Mul(vy, dt)] :
          wind \in {wind_field(t, q.y, q.depth, q.seed)},
          n \in {value_noise_1d(Mul(t, q.sway_speed), q.seed)}})

Bottom == (HEIGHT + 20) * SCALE
Top == -60 * SCALE
Left == -50 * SCALE
Right == (WIDTH + 50) * SCALE

BelowScreenInclusive(y) == y >= Bottom

\* the test of line 100 and the one of line 104
BelowScreen(y) == y > Bottom
AboveScreen(y) == y < Top

RecycleToTopTooHigh(d) ==
  reset(uniform(0, WIDTH * SCALE, d.rx), -80 * SCALE, d.r1, d.r2, d.sd)

RecycleToBottomTooLow(d) ==
  reset(uniform(0, WIDTH * SCALE, d.rx), (HEIGHT + 80) * SCALE, d.r1, d.r2, d.sd)

WrapToEdge(q) ==
  IF q.x < Left THEN [q EXCEPT !.x = WIDTH * SCALE]
  ELSE IF q.x > Right THEN [q EXCEPT !.x = 0]
  ELSE q

WrapByReset(q) ==
  IF q.x < Left THEN reset(Right, q.y, 0, 0, 0)
  ELSE IF q.x > Right THEN reset(Left, q.y, 0, 0, 0)
  ELSE q

\* self.reset(random.uniform(0, WIDTH), -20), line 101
RecycleToTop(d) ==
  reset(uniform(0, WIDTH * SCALE, d.rx), -20 * SCALE, d.r1, d.r2, d.sd)

\* self.reset(random.uniform(0, WIDTH), HEIGHT + 20), line 105
RecycleToBottom(d) ==
  reset(uniform(0, WIDTH * SCALE, d.rx), Bottom, d.r1, d.r2, d.sd)

\* the horizontal loop, lines 108-111
Wrap(q) ==
  IF q.x < Left THEN [q EXCEPT !.x = Right]
  ELSE IF q.x > Right THEN [q EXCEPT !.x = Left]
  ELSE q

\* update, lines 98-111, on the integrated particle q.  d1 and d2 are what the
\* random source yields to the reset of line 101 and to the one of line 105
\* (read only when that reset runs).  The result carries the particle and a
\* record of what the call did: the integrated position and velocity, the
\* damping factor used, the number of resets, whether x was wrapped, and
\* whether the call raised (update has no raise statement and no check of its
\* arguments: every call returns).
Finish(q, dt, t, d1, d2) ==
  LET hit1 == BelowScreen(q.y)
      s1 == IF hit1 THEN RecycleToTop(d1) ELSE q
      hit2 == AboveScreen(s1.y)
      s2 == IF hit2 THEN RecycleToBottom(d2) ELSE s1
      s3 == Wrap(s2)
  IN  [p |-> s3,
       ev |-> [op |-> "update", dt |-> dt,
               x |-> q.x, y |-> q.y, vx |-> q.vx, vy |-> q.vy,
               damp |-> Damp(q.drag, dt),
               resets |-> (IF hit1 THEN 1 ELSE 0) + (IF hit2 THEN 1 ELSE 0),
               wrapped |-> s3.x # s2.x,
               raised |-> FALSE]]

\* SnowParticle.update(dt, t)
update(q, dt, t, d1, d2) ==
  Only({Finish(qi, dt, t, d1, d2) : qi \in {Integrate(q, dt, t)}})

\* ------------------------------------------------------------------------
\* The random module's generator, shared by every reset and by the main loop.
\* Its state is one number; each call advances it and returns a value derived
\* from the new state (a linear congruential stand-in for the library's
\* generator: deterministic, and consumed in call order).
RngNext(g) == (g * 75 + 74) % 65537

\* random.random() and random.randint(0, 10_000) read off the state g
random(g) == (g * SCALE) \div 65537
randint(g) == (g * 10001) \div 65537

\* the four values one reset call of update consumes, in call order:
\* uniform(0, WIDTH), then depth, sway_speed and seed inside reset
DrawFrom(g) ==
  Only({[rx |-> random(g1), r1 |-> random(RngNext(g1)),
         r2 |-> random(RngNext(RngNext(g1))),
         sd |-> randint(RngNext(RngNext(RngNext(g1))))] : g1 \in {RngNext(g)}})

AdvanceRngEveryCall(g, k) ==
  IF k = 0 THEN RngNext(g)
  ELSE IF k = 1 THEN RngNext(RngNext(RngNext(RngNext(RngNext(g)))))
  ELSE RngNext(RngNext(RngNext(RngNext(RngNext(RngNext(RngNext(RngNext(RngNext(g)))))))))

\* the generator after k resets, which are the only calls update makes on it
AdvanceRng(g, k) ==
  IF k = 0 THEN g
  ELSE IF k = 1 THEN RngNext(RngNext(RngNext(RngNext(g))))
  ELSE RngNext(RngNext(RngNext(RngNext(RngNext(RngNext(RngNext(RngNext(g))))))))

\* update(dt, t) of particle q with the shared generator in state g
UpdateWithRng(q, g, dt, t) ==
  Only({LET d1 == DrawFrom(g)
            d2 == DrawFrom(IF BelowScreen(qi.y) THEN AdvanceRng(g, 1) ELSE g)
        IN  Only({[p |-> r.p, resets |-> r.ev.resets,
                   rng |-> AdvanceRng(g, r.ev.resets)] :
                    r \in {Finish(qi, dt, t, d1, d2)}}) :
          qi \in {Integrate(q, dt, t)}})

\* for p in particles: p.update(dt, t), taken in the order ord (a sequence of
\* indices); acc holds the particles, the generator and the indices recycled
RECURSIVE RunUpdates(_, _, _, _)
RunUpdates(acc, dt, t, ord) ==
  IF ord = <<>> THEN acc
  ELSE Only({RunUpdates([ps |-> [acc.ps EXCEPT ![Head(ord)] = r.p],
                         rng |-> r.rng,
                         hit |-> IF r.resets > 0 THEN acc.hit \cup {Head(ord)}
                                 ELSE acc.hit],
                        dt, t, Tail(ord)) :
               r \in {UpdateWithRng(acc.ps[Head(ord)], acc.rng, dt, t)}})

\* SnowParticle(): uniform(0, WIDTH), uniform(0, HEIGHT), then reset's draws
Construct(g) ==
  Only({[p |-> reset(uniform(0, WIDTH * SCALE, random(g1)),
                     uniform(0, HEIGHT * SCALE, random(RngNext(g1))),
                     random(RngNext(RngNext(g1))),
                     random(RngNext(RngNext(RngNext(g1)))),
                     randint(RngNext(RngNext(RngNext(RngNext(g1)))))),
         rng |-> RngNext(RngNext(RngNext(RngNext(g1))))] : g1 \in {RngNext(g)}})

\* particles = [SnowParticle() for _ in range(n)]
RECURSIVE ConstructAll(_, _)
ConstructAll(n, g) ==
  IF n = 0 THEN [ps |-> <<>>, rng |-> g]
  ELSE Only({Only({[ps |-> Append(rest.ps, c.p), rng |-> c.rng] :
                     c \in {Construct(rest.rng)}}) :
               rest \in {ConstructAll(n - 1, g)}})

\* ------------------------------------------------------------------------
\* bounds of the model
MaxSteps == 5
MaxStepsAnyDt == 3
MaxTicks == 3
NParticles == 2
MaxHashI == 20

\* the time step of the bounded runs, 0.28125 s
DtStep == (9 * SCALE) \div 32

\* values of random.random() drawn for x, for y, for depth and for sway_speed
XRand == {0, SCALE - 1}
YRand == {0, (5 * SCALE) \div 6}
DepthRand == {0, SCALE - 1}
SwayRand == {0, SCALE - 1}
\* values of random.randint(0, 10_000)
SeedVals == {5182, 7989}
\* time steps and times handed to update (seconds * SCALE)
DtVals == {0, DtStep, SCALE}
DtAnyVals == {-DtStep, 0, DtStep}
TVals == {0, (33 * SCALE) \div 8}
\* the main loop's time steps and the generator's states at start-up
TickDts == {0, DtStep}
RngSeeds == 2469 .. 2480
\* arguments of hash01
HashIs == (0 .. MaxHashI) \cup {2925611}
HashSeeds == {0, 42, 725, 5182, 7989, 10000}

Draws == [rx : XRand, r1 : DepthRand, r2 : SwayRand, sd : SeedVals]
NoDraw == [rx |-> 0, r1 |-> 0, r2 |-> 0, sd |-> 0]
DrawsIf(c) == IF c THEN Draws ELSE {NoDraw}

VARIABLES
  p,          \* the particle of the single-particle specifications
  ev,         \* what the last call on p did
  steps,      \* the number of calls of update on p with dt # 0
  particles,  \* main's list of particles
  rng,        \* the state of the shared random source
  clock,      \* main's t
  ticks,      \* the number of iterations of main's loop
  tickev,     \* what the last iteration did
  hin,        \* the arguments <<i, seed>> of the last call of hash01
  hout        \* the 32-bit word that call computed

vars == <<p, ev, steps, particles, rng, clock, ticks, tickev, hin, hout>>
particleVars == <<p, ev, steps>>
driverVars == <<particles, rng, clock, ticks, tickev>>
hashVars == <<hin, hout>>

NoEvent == [op |-> "init", dt |-> 0, x |-> 0, y |-> 0, vx |-> 0, vy |-> 0,
            damp |-> SCALE, resets |-> 0, wrapped |-> FALSE, raised |-> FALSE]
NoParticle == reset(0, 0, 0, 0, 0)
NoTick == [dt |-> 0, hit |-> {}]

ParticleIdle == p = NoParticle /\ ev = NoEvent /\ steps = 0
DriverIdle ==
  particles = <<>> /\ rng = 0 /\ clock = 0 /\ ticks = 0 /\ tickev = NoTick
HashIdle == hin = <<0, 0>> /\ hout = <<0, 0>>

\* ------------------------------------------------------------------------
\* one particle, update called with any dt and t of the bounded sets

\* SnowParticle.__init__
InitParticle ==
  /\ \E rx \in XRand, ry \in YRand, d \in Draws :
       p = reset(uniform(0, WIDTH * SCALE, rx), uniform(0, HEIGHT * SCALE, ry),
                 d.r1, d.r2, d.sd)
  /\ ev = NoEvent
  /\ steps = 0

Init == InitParticle /\ DriverIdle /\ HashIdle

\* p.update(dt, t); limit bounds the calls that advance time
Call(dt, t, limit) ==
  /\ dt = 0 \/ steps < limit
  /\ \E q \in {Integrate(p, dt, t)} :
       \E d1 \in DrawsIf(BelowScreen(q.y)) :
         \E d2 \in DrawsIf(AboveScreen((IF BelowScreen(q.y)
                                         THEN RecycleToTop(d1) ELSE q).y)) :
           \E r \in {Finish(q, dt, t, d1, d2)} :
             /\ p' = r.p
             /\ ev' = r.ev
  /\ steps' = IF dt = 0 THEN steps ELSE steps + 1
  /\ UNCHANGED <<driverVars, hashVars>>

Update(dt, t) == Call(dt, t, MaxSteps)

Next == \E dt \in DtVals, t \in TVals : Update(dt, t)

Spec == Init /\ [][Next]_vars

\* the same particle with update also called with a negative dt
UpdateAnyDt(dt, t) == Call(dt, t, MaxStepsAnyDt)

NextAnyDt == \E dt \in DtAnyVals, t \in TVals : UpdateAnyDt(dt, t)

SpecAnyDt == Init /\ [][NextAnyDt]_vars

\* ------------------------------------------------------------------------
\* main(): the particle list and the loop body, lines 162-181

ConstructParticles ==
  /\ \E g \in RngSeeds :
       \E c \in {ConstructAll(NParticles, g)} :
         /\ particles = c.ps
         /\ rng = c.rng
  /\ clock = 0
  /\ ticks = 0
  /\ tickev = NoTick

Identity == [i \in 1 .. NParticles |-> i]

\* one iteration: t += dt, the draw of line 176, then every particle's update
Tick(dt) ==
  /\ ticks < MaxTicks
  /\ \E r \in {RunUpdates([ps |-> particles, rng |-> RngNext(rng), hit |-> {}],
                          dt, clock + dt, Identity)} :
       /\ particles' = r.ps
       /\ rng' = r.rng
       /\ tickev' = [dt |-> dt, hit |-> r.hit]
  /\ clock' = clock + dt
  /\ ticks' = ticks + 1
  /\ UNCHANGED <<particleVars, hashVars>>

NextDriver == \E dt \in TickDts : Tick(dt)

InitDriver == ConstructParticles /\ ParticleIdle /\ HashIdle

SpecDriver == InitDriver /\ [][NextDriver]_vars

\* ------------------------------------------------------------------------
\* hash01 called on the bounded arguments

FirstHash ==
  /\ hin \in HashIs \X HashSeeds
  /\ hout = hashWord(hin[1], hin[2])

Hash(i, seed) ==
  /\ hin' = <<i, seed>>
  /\ hout' = hashWord(i, seed)
  /\ UNCHANGED <<particleVars, driverVars>>

NextHash == \E i \in HashIs, seed \in HashSeeds : Hash(i, seed)

InitHash == FirstHash /\ ParticleIdle /\ DriverIdle

SpecHash == InitHash /\ [][NextHash]_vars

\* ------------------------------------------------------------------------
\* properties

\* the fields that reset sets and update is not meant to touch
Params(q) ==
  <<q.seed, q.depth, q.size, q.alpha, q.gravity, q.sway_amp, q.sway_speed, q.drag>>

\* q looks as reset leaves a particle: in [0, WIDTH), at rest horizontally,
\* gravity, sway_amp, drag and vy as derived from its depth
FreshFromDepth(q) ==
  /\ 0 <= q.x /\ q.x < WIDTH * SCALE
  /\ q.gravity = 30 * SCALE + 80 * q.depth
  /\ q.sway_amp = 40 * SCALE + 70 * q.depth
  /\ q.drag = (16 * SCALE) \div 10 - (6 * q.depth) \div 10
  /\ q.vx = 0
  /\ q.vy = 20 * SCALE + 150 * q.depth

InBandY(y) == -60 * SCALE <= y /\ y <= (HEIGHT + 20) * SCALE

\* C1: after an update whose integrated y is above HEIGHT + 20 the particle is
\* at y = -20 with a new x in [0, WIDTH) and gravity, sway_amp, drag, vx, vy as
\* reset derives them from the depth; else, if the integrated y is below -60,
\* the same at y = HEIGHT + 20; and no update resets twice.
VerticalRecycling ==
  ev.op = "update" =>
    /\ ev.y > (HEIGHT + 20) * SCALE =>
         (p.y = -20 * SCALE /\ FreshFromDepth(p) /\ ev.resets = 1)
    /\ (ev.y <= (HEIGHT + 20) * SCALE /\ ev.y < -60 * SCALE) =>
         (p.y = (HEIGHT + 20) * SCALE /\ FreshFromDepth(p) /\ ev.resets = 1)
    /\ ev.resets <= 1

\* C1 witness: an update took the particle below the screen and recycled it
RecycledFromBottom ==
  ev.op = "update" /\ ev.dt > 0 /\ ev.y > (HEIGHT + 20) * SCALE /\ p.y = -20 * SCALE

\* an update whose integrated x left [-50, WIDTH + 50]
WrapCase ==
  ev'.op = "update" /\ (ev'.x < -50 * SCALE \/ ev'.x > (WIDTH + 50) * SCALE)

\* the wrap moved x to the opposite edge and kept the integrated velocity and
\* every parameter
WrapEffect ==
  /\ ev'.x < -50 * SCALE => p'.x = (WIDTH + 50) * SCALE
  /\ ev'.x > (WIDTH + 50) * SCALE => p'.x = -50 * SCALE
  /\ p'.vx = ev'.vx /\ p'.vy = ev'.vy
  /\ Params(p') = Params(p)

\* C2 as claimed: every update whose integrated x is below -50 (above
\* WIDTH + 50) ends at x = WIDTH + 50 (-50) with velocity and parameters kept,
\* whatever y the same update reached.
WrapIsNotResetAnyY == [][WrapCase => WrapEffect]_vars

\* C2 amended: the same, for the updates whose integrated y stays within
\* [-60, HEIGHT + 20]; y is then the integrated y as well.
WrapIsNotReset ==
  [][(WrapCase /\ InBandY(ev'.y)) => (WrapEffect /\ p'.y = ev'.y)]_vars

\* C2 witness: an update wrapped the particle from the left edge, unrecycled
WrappedFromLeft ==
  /\ ev.op = "update" /\ ev.x < -50 * SCALE /\ InBandY(ev.y)
  /\ p.x = (WIDTH + 50) * SCALE /\ p.vx = ev.vx /\ p.vx < 0

\* C3 as claimed: an update with a negative dt fails with InvalidInput and
\* leaves every field of the particle as it was.
RejectsNegativeDt ==
  [][(ev'.op = "update" /\ ev'.dt < 0) => (ev'.raised /\ p' = p)]_vars

\* C4 the list of particles after the updates of this iteration taken in the
\* order ord, from the state the iteration started in
TickInOrder(ord) ==
  RunUpdates([ps |-> particles, rng |-> RngNext(rng), hit |-> {}],
             tickev'.dt, clock', ord).ps

Orders ==
  {f \in [1 .. NParticles -> 1 .. NParticles] :
     \A i, j \in 1 .. NParticles : i # j => f[i] # f[j]}

\* C4 as claimed: the updates of one iteration taken in any order leave every
\* particle as the list order does, recycled particles included.
OrderIndependent ==
  [][ticks' # ticks => \A ord \in Orders : TickInOrder(ord) = particles']_vars

\* C4 amended: a particle the iteration does not recycle ends in the same
\* state in every order, and so does every particle when the iteration
\* recycles at most one.
OrderIndependentButDraws ==
  [][ticks' # ticks =>
       \A ord \in Orders :
         \E ps \in {TickInOrder(ord)} :
           /\ Cardinality(tickev'.hit) <= 1 => ps = particles'
           /\ \A i \in 1 .. NParticles :
                i \notin tickev'.hit => ps[i] = particles'[i]]_vars

\* C4 witness: an iteration recycled exactly one of several particles
OneRecycledInTick ==
  ticks > 0 /\ Cardinality(tickev.hit) = 1 /\ Len(particles) > 1 /\ tickev.dt > 0

\* C5: an update with dt = 0 changes neither position nor velocity and
\* neither resets nor wraps.
ZeroDtIsNoOp ==
  [][(ev'.op = "update" /\ ev'.dt = 0) =>
       /\ p'.x = p.x /\ p'.y = p.y /\ p'.vx = p.vx /\ p'.vy = p.vy
       /\ ev'.resets = 0 /\ ~ev'.wrapped]_vars

\* C5 witness: update(0, t) was called on a particle that an earlier update
\* had recycled onto the bottom edge y = HEIGHT + 20
ZeroDtOnBottomEdge ==
  /\ ev.op = "update" /\ ev.dt = 0 /\ steps > 0
  /\ p.y = (HEIGHT + 20) * SCALE /\ p.vy > 0

\* C6 as claimed: the word hash01 divides is never 0xFFFFFFFF, so that
\* hash01 < 1.
Hash01BelowOne == hout # <<65535, 65535>> /\ Norm32(hout) < SCALE

RoundNearest(v) == (v + SCALE \div 2) \div SCALE
Clamp255(a) == IF a < 0 THEN 0 ELSE IF a > 255 THEN 255 ELSE a

\* C7 as claimed: alpha is 70 + depth * 185 rounded to nearest, clamped to
\* 0..255.
AlphaRounded == p.alpha = Clamp255(RoundNearest(70 * SCALE + 185 * p.depth))

\* C7 amended: alpha is 70 + depth * 185 rounded down (int() truncates), which
\* lies in 70..254, so that no clamping takes place.
AlphaTruncated ==
  /\ p.alpha * SCALE <= 70 * SCALE + 185 * p.depth
  /\ 70 * SCALE + 185 * p.depth < (p.alpha + 1) * SCALE
  /\ 70 <= p.alpha /\ p.alpha <= 254

\* C7 witness: a recycling drew a depth for which rounding and truncation
\* differ (70 + 185 * depth = 254.8...)
RecycledWithAlpha254 ==
  ev.op = "update" /\ ev.resets = 1 /\ p.depth = SCALE - 1 /\ p.alpha = 254

\* C8: an update whose integrated y stays within [-60, HEIGHT + 20] leaves
\* seed, depth, size, alpha, gravity, sway_amp, sway_speed and drag as they
\* were, and these fields change only in an update that resets.
ParamsChangeOnlyOnReset ==
  [][/\ (ev'.op = "update" /\ InBandY(ev'.y)) => Params(p') = Params(p)
     /\ Params(p') # Params(p) => (ev'.op = "update" /\ ev'.resets >= 1)]_vars

\* C8 witness: an update moved and wrapped the particle without recycling it
MovedAndWrappedOnly ==
  ev.op = "update" /\ ev.dt > 0 /\ ev.resets = 0 /\ ev.wrapped /\ InBandY(ev.y)

\* C9: depth is in [0, 1], drag is positive, in (1.0, 1.6], and the damping
\* factor an update with dt > 0 uses is in [0, 1).
DragAndDamping ==
  /\ 0 <= p.depth /\ p.depth <= SCALE
  /\ p.drag > 0 /\ SCALE < p.drag /\ p.drag <= (16 * SCALE) \div 10
  /\ (ev.op = "update" /\ ev.dt > 0) => (0 <= ev.damp /\ ev.damp < SCALE)

\* C9 witness: an update of a recycled particle damped its velocity by a
\* factor strictly between 0 and 1
DampedAfterRecycling ==
  /\ ev.op = "update" /\ ev.dt > 0 /\ 0 < ev.damp /\ ev.damp < SCALE
  /\ ev.resets = 0 /\ p.y < 0 /\ p.y > -20 * SCALE /\ p.vy > 0 /\ steps > 1

\* C10: after construction and after every update the particle is within
\* -60 <= y <= HEIGHT + 20 and -50 <= x <= WIDTH + 50.
InsideBand ==
  /\ -60 * SCALE <= p.y /\ p.y <= (HEIGHT + 20) * SCALE
  /\ -50 * SCALE <= p.x /\ p.x <= (WIDTH + 50) * SCALE

\* C10 witness: an update took the particle above y = -60 and it was put back
\* on the bottom edge
RecycledFromTop ==
  ev.op = "update" /\ ev.dt > 0 /\ ev.y < -60 * SCALE /\ p.y = (HEIGHT + 20) * SCALE

====
